---- MODULE Spec2Model ----
(***************************************************************************)
(* cdnx (src/src/main.rs): a model of the CIDR matcher (parse_cidr,        *)
(* is_ip_in_cidr, is_cdn), of the cache refresh (check_updates,            *)
(* fetch_new_data, read_cidrs) and of the bounded resolution pipeline of   *)
(* main.                                                                   *)
(*                                                                         *)
(* Text (cache lines, stdin lines, the ports argument, output lines) is a  *)
(* sequence of one-character strings, so that splitting, parsing and       *)
(* formatting are computed.  A u32 is a pair of 16-bit limbs.  The file    *)
(* system is taken to work: create, open, read and write succeed.          *)
(***************************************************************************)
EXTENDS Integers, Sequences, FiniteSets, Bags, TLC

VARIABLES
    overflow_checks,  \* the build: TRUE = debug (overflow panics), FALSE = release
    \* ---- calls of the pure matcher functions
    arg_ip, arg_net, arg_prefix, ret_in_cidr,
    arg_cidrs, arg_cand, ret_is_cdn,
    \* ---- the files under ~/.config/cdnx and check_updates / fetch_new_data
    config,           \* config.yaml: whether it exists, its Interval and Providers
    cache,            \* cidr.txt: whether it exists and its text
    cache0,           \* cidr.txt as the run found it
    branch,           \* the branch check_updates took
    interval,         \* the interval check_updates used, in seconds
    gap,              \* the age of cidr.txt that check_updates measured, in ticks
    fetch_calls,      \* how often fetch_new_data has been called
    fetch_providers,  \* the provider list fetch_new_data was called with
    prov,             \* the fetch task of each provider
    chan,             \* the lines in the channel
    is_err,           \* fetch_new_data's flag
    received,         \* the lines the sink has received, in order
    \* ---- main: the arguments, the loaded set, the pipeline
    ports_arg,        \* args.ports: Option<String>
    append,           \* args.append
    max_concurrent,   \* args.thread
    ip_ranges,        \* the lines read_cidrs returned
    main_pc,          \* where main stands
    domain,           \* the line read from stdin and not yet spawned
    lines_read,       \* lines stdin has delivered
    stdin_eof,        \* stdin has reported its end
    units,            \* the resolution units spawned so far, in spawn order
    join_set,         \* indices of units spawned and not yet joined
    stdout            \* the lines printed, as a multiset

matchVars == <<arg_ip, arg_net, arg_prefix, ret_in_cidr, arg_cidrs, arg_cand, ret_is_cdn>>

pipeVars == <<ports_arg, append, max_concurrent, ip_ranges, main_pc, domain, lines_read,
              stdin_eof, units, join_set, stdout>>

cacheVars == <<config, cache, cache0, branch, interval, gap, fetch_calls, fetch_providers,
               prov, chan, is_err, received>>

vars == <<overflow_checks, matchVars, cacheVars, pipeVars>>

-----------------------------------------------------------------------------
(* Text helpers *)

\* a string as the sequence of its characters
Chars(s) == [i \in 1..Len(s) |-> SubSeq(s, i, i)]

DigitChars == <<"0", "1", "2", "3", "4", "5", "6", "7", "8", "9">>

IsDigit(c) == \E i \in 1..10 : DigitChars[i] = c

DigitVal(c) == (CHOOSE i \in 1..10 : DigitChars[i] = c) - 1

AllDigits(s) == \A i \in 1..Len(s) : IsDigit(s[i])

RECURSIVE DecVal(_)
\* value of a digit string, saturating above 999 so that it stays small
DecVal(s) ==
    IF s = <<>> THEN 0
    ELSE LET v == DecVal(SubSeq(s, 1, Len(s) - 1)) * 10 + DigitVal(s[Len(s)])
         IN  IF v > 999 THEN 1000 ELSE v

RECURSIVE Split(_, _)
\* str::split(sep): the pieces between the separators, empty pieces kept
Split(s, sep) ==
    IF \A i \in 1..Len(s) : s[i] # sep THEN <<s>>
    ELSE LET k == CHOOSE i \in 1..Len(s) :
                      s[i] = sep /\ \A j \in 1..(i - 1) : s[j] # sep
         IN  <<SubSeq(s, 1, k - 1)>> \o Split(SubSeq(s, k + 1, Len(s)), sep)

SeqsUpTo(S, n) == UNION { [1..k -> S] : k \in 0..n }

IsSpace(c) == c \in {" ", "\n", "\t", "\r"}

RECURSIVE Trim(_)
\* str::trim: leading and trailing whitespace removed
Trim(s) ==
    IF s = <<>> THEN s
    ELSE IF IsSpace(s[1]) THEN Trim(Tail(s))
    ELSE IF IsSpace(s[Len(s)]) THEN Trim(SubSeq(s, 1, Len(s) - 1))
    ELSE s

-----------------------------------------------------------------------------
(* Parsers of the standard library, as the code calls them *)

Err == [ok |-> FALSE, val |-> <<>>]

Ok(v) == [ok |-> TRUE, val |-> <<v>>]

\* parts[1].parse::<u8>(): an optional '+', then one or more digits, value <= 255
parse_u8(s) ==
    LET d == IF s # <<>> /\ s[1] = "+" THEN Tail(s) ELSE s
    IN  IF d = <<>> \/ ~AllDigits(d) THEN Err
        ELSE IF DecVal(d) > 255 THEN Err
        ELSE Ok(DecVal(d))

\* one octet of an IPv4 literal: 1 to 3 digits, no leading zero, value <= 255
IsOctet(s) ==
    /\ Len(s) \in 1..3
    /\ AllDigits(s)
    /\ (Len(s) > 1 => s[1] # "0")
    /\ DecVal(s) <= 255

\* Ipv4Addr::from_str: exactly four octets separated by '.'
parse_ipv4(s) ==
    LET p == Split(s, ".")
    IN  IF Len(p) = 4 /\ \A i \in 1..4 : IsOctet(p[i])
        THEN Ok([i \in 1..4 |-> DecVal(p[i])])
        ELSE Err

-----------------------------------------------------------------------------
(* parse_cidr, ipv4_to_u32, is_ip_in_cidr, is_cdn *)

parse_cidr(cidr) ==
    LET parts == Split(cidr, "/")
    IN  IF Len(parts) # 2 THEN Err
        ELSE LET ip == parse_ipv4(parts[1])
                 prefix_len == parse_u8(parts[2])
             IN  IF ~ip.ok THEN Err
                 ELSE IF ~prefix_len.ok THEN Err
                 ELSE IF prefix_len.val[1] > 32 THEN Err
                 ELSE Ok(<<ip.val[1], prefix_len.val[1]>>)

\* u32::from(Ipv4Addr): the octets big-endian, as two 16-bit limbs
ipv4_to_u32(ip) == [hi |-> ip[1] * 256 + ip[2], lo |-> ip[3] * 256 + ip[4]]

RECURSIVE Pow2(_)
Pow2(n) == IF n = 0 THEN 1 ELSE 2 * Pow2(n - 1)

RECURSIVE BitAnd(_, _, _)
\* bitwise and of two w-bit numbers
BitAnd(a, b, w) ==
    IF w = 0 THEN 0
    ELSE 2 * BitAnd(a \div 2, b \div 2, w - 1) + (IF a % 2 = 1 /\ b % 2 = 1 THEN 1 ELSE 0)

And32(a, b) == [hi |-> BitAnd(a.hi, b.hi, 16), lo |-> BitAnd(a.lo, b.lo, 16)]

\* x << s for a u32 and 0 <= s < 32: the bits shifted out at the top are lost
Shl32(x, s) ==
    IF s >= 16
    THEN [hi |-> (x.lo % Pow2(32 - s)) * Pow2(s - 16), lo |-> 0]
    ELSE [hi |-> (x.hi % Pow2(16 - s)) * Pow2(s) + (x.lo \div Pow2(16 - s)),
          lo |-> (x.lo % Pow2(16 - s)) * Pow2(s)]

AllOnes32 == [hi |-> 65535, lo |-> 65535]

Ret(v) == [panic |-> FALSE, val |-> v]

Panicked == [panic |-> TRUE, val |-> FALSE]

\* !0u32 << (32 - prefix_len): a shift by 32 overflows; with overflow checks it
\* panics, without them the shift amount is taken modulo 32
is_ip_in_cidr(ip, network_ip, prefix_len) ==
    LET ip_u32 == ipv4_to_u32(ip)
        network_ip_u32 == ipv4_to_u32(network_ip)
        shift == 32 - prefix_len
    IN  IF shift >= 32 /\ overflow_checks THEN Panicked
        ELSE LET netmask_u32 == Shl32(AllOnes32, shift % 32)
             IN  Ret(And32(ip_u32, netmask_u32) = And32(network_ip_u32, netmask_u32))

RECURSIVE is_cdn_AnyFamily(_, _)
\* a loop that takes a candidate of another family to be inside every network
is_cdn_AnyFamily(cidrs, ip) ==
    IF cidrs = <<>> THEN Ret(FALSE)
    ELSE LET c == parse_cidr(Head(cidrs))
             a == parse_ipv4(ip)
         IN  IF c.ok /\ a.ok
             THEN LET is_in_range == is_ip_in_cidr(a.val[1], c.val[1][1], c.val[1][2])
                  IN  IF is_in_range.panic THEN Panicked
                      ELSE IF is_in_range.val THEN Ret(TRUE)
                      ELSE is_cdn_AnyFamily(Tail(cidrs), ip)
             ELSE IF c.ok THEN Ret(TRUE)
             ELSE is_cdn_AnyFamily(Tail(cidrs), ip)

RECURSIVE is_cdn(_, _)
\* the loop over the lines: the first containing line returns true
is_cdn(cidrs, ip) ==
    IF cidrs = <<>> THEN Ret(FALSE)
    ELSE LET c == parse_cidr(Head(cidrs))
             a == parse_ipv4(ip)
         IN  IF c.ok /\ a.ok
             THEN LET is_in_range == is_ip_in_cidr(a.val[1], c.val[1][1], c.val[1][2])
                  IN  IF is_in_range.panic THEN Panicked
                      ELSE IF is_in_range.val THEN Ret(TRUE)
                      ELSE is_cdn(Tail(cidrs), ip)
             ELSE is_cdn(Tail(cidrs), ip)

-----------------------------------------------------------------------------
(* main: arguments and the per-unit computation (lines 277-285, 308-337) *)

None == [some |-> FALSE, val |-> <<>>]

Some(v) == [some |-> TRUE, val |-> v]

\* ports = p.split(',') when the argument is given, else the empty vector
ports == IF ports_arg.some THEN Split(ports_arg.val, ",") ELSE <<>>

allow_print_ports == Len(ports) # 0

HexChars == DigitChars \o <<"a", "b", "c", "d", "e", "f", "A", "B", "C", "D", "E", "F">>

IsHexGroup(g) == Len(g) \in 1..4 /\ \A i \in 1..Len(g) : \E j \in 1..Len(HexChars) : HexChars[j] = g[i]

Groups(s) == IF s = <<>> THEN <<>> ELSE Split(s, ":")

\* Ipv6Addr::from_str without an embedded IPv4 tail: eight groups, or fewer
\* around a single "::"
parse_ipv6(s) ==
    LET dbl == { k \in 1..(Len(s) - 1) : s[k] = ":" /\ s[k + 1] = ":" }
    IN  IF dbl = {}
        THEN Len(Groups(s)) = 8 /\ \A i \in 1..8 : IsHexGroup(Groups(s)[i])
        ELSE /\ Cardinality(dbl) = 1
             /\ LET k == CHOOSE x \in dbl : TRUE
                    l == Groups(SubSeq(s, 1, k - 1))
                    r == Groups(SubSeq(s, k + 2, Len(s)))
                IN  /\ Len(l) + Len(r) <= 7
                    /\ \A i \in 1..Len(l) : IsHexGroup(l[i])
                    /\ \A i \in 1..Len(r) : IsHexGroup(r[i])

\* domain.parse::<IpAddr>()
parse_ip_addr(s) == parse_ipv4(s).ok \/ parse_ipv6(s)

\* an output decision that prints the configured ports for an appended CDN host
OutputLines_ConfiguredPorts(d, is_this_cdn) ==
    IF ~allow_print_ports /\ ((is_this_cdn /\ append) \/ ~is_this_cdn)
    THEN <<d>>
    ELSE IF ~is_this_cdn \/ append
    THEN [i \in 1..Len(ports) |-> d \o Chars(":") \o ports[i]]
    ELSE <<>>

\* the println! calls of a unit, in order, for a resolved address classified cdn
OutputLines(d, is_this_cdn) ==
    IF ~allow_print_ports /\ ((is_this_cdn /\ append) \/ ~is_this_cdn)
    THEN <<d>>
    ELSE IF is_this_cdn /\ append
    THEN <<d \o Chars(":80"), d \o Chars(":443")>>
    ELSE IF ~is_this_cdn
    THEN [i \in 1..Len(ports) |-> d \o Chars(":") \o ports[i]]
    ELSE <<>>

\* what ipv4_lookup can answer: an error, an answer without an A record, or
\* an answer whose first A record is one of ResolvedAddrs
ResolvedAddrs == { Chars("1.2.3.9"), Chars("9.9.9.9") }

LookupAnswers ==
    { [kind |-> "err", ip |-> <<>>], [kind |-> "empty", ip |-> <<>>] }
        \cup { [kind |-> "ok", ip |-> a] : a \in ResolvedAddrs }

NewUnit(d) ==
    [domain |-> d, st |-> "running", answer |-> "none", this_ip |-> <<>>,
     classified |-> FALSE, is_this_cdn |-> FALSE, pending |-> <<>>, out |-> <<>>,
     joined |-> FALSE]

\* a unit that sends every input line, literal or not, to the resolver
Resolved_AlwaysLookup(u, ans) ==
    LET this_ip == ans.ip
        c == is_cdn(ip_ranges, this_ip)
        lines == OutputLines(u.domain, c.val)
    IN  IF ans.kind = "empty"
        THEN [u EXCEPT !.st = "panicked", !.answer = ans.kind]
        ELSE IF this_ip = <<>>
        THEN [u EXCEPT !.st = "finished", !.answer = ans.kind]
        ELSE IF c.panic
        THEN [u EXCEPT !.st = "panicked", !.answer = ans.kind, !.this_ip = this_ip]
        ELSE [u EXCEPT !.st = IF lines = <<>> THEN "finished" ELSE "printing",
                       !.answer = ans.kind, !.this_ip = this_ip,
                       !.classified = TRUE, !.is_this_cdn = c.val,
                       !.pending = lines]

\* the unit from its spawn to its first println!: this_ip, the early return,
\* is_cdn and the output decision.  .unwrap() on an answer without an A record
\* and a panic inside is_cdn end the task with a panic.
Resolved(u, ans) ==
    LET literal == parse_ip_addr(u.domain)
        this_ip == IF literal THEN u.domain ELSE ans.ip
        c == is_cdn(ip_ranges, this_ip)
        lines == OutputLines(u.domain, c.val)
        answer == IF literal THEN "none" ELSE ans.kind
    IN  IF ~literal /\ ans.kind = "empty"
        THEN [u EXCEPT !.st = "panicked", !.answer = answer]
        ELSE IF this_ip = <<>>
        THEN [u EXCEPT !.st = "finished", !.answer = answer]
        ELSE IF c.panic
        THEN [u EXCEPT !.st = "panicked", !.answer = answer, !.this_ip = this_ip]
        ELSE [u EXCEPT !.st = IF lines = <<>> THEN "finished" ELSE "printing",
                       !.answer = answer, !.this_ip = this_ip,
                       !.classified = TRUE, !.is_this_cdn = c.val,
                       !.pending = lines]

Terminated == main_pc \in {"done", "err", "panic", "exit1"}

\* what no step of the pipeline changes
pipeFrame == <<overflow_checks, matchVars, cacheVars, ports_arg, append, max_concurrent,
               ip_ranges>>

\* a spawned task runs up to the end of its lookup and decides its output
Run(i) ==
    /\ ~Terminated
    /\ i \in 1..Len(units)
    /\ units[i].st = "running"
    /\ \E ans \in LookupAnswers :
          units' = [units EXCEPT ![i] = Resolved(units[i], ans)]
    /\ UNCHANGED <<pipeFrame, main_pc, domain, lines_read, stdin_eof, join_set, stdout>>

\* a unit that writes each of its lines twice
Println_Twice(i) ==
    /\ ~Terminated
    /\ i \in 1..Len(units)
    /\ units[i].st = "printing"
    /\ stdout' = stdout (+) SetToBag({Head(units[i].pending)})
                        (+) SetToBag({Head(units[i].pending)})
    /\ units' = [units EXCEPT ![i].pending = Tail(@),
                              ![i].out = Append(@, Head(units[i].pending)),
                              ![i].st = IF Len(units[i].pending) = 1
                                        THEN "finished" ELSE "printing"]
    /\ UNCHANGED <<pipeFrame, main_pc, domain, lines_read, stdin_eof, join_set>>

\* one println! of a unit
Println(i) ==
    /\ ~Terminated
    /\ i \in 1..Len(units)
    /\ units[i].st = "printing"
    /\ stdout' = stdout (+) SetToBag({Head(units[i].pending)})
    /\ units' = [units EXCEPT ![i].pending = Tail(@),
                              ![i].out = Append(@, Head(units[i].pending)),
                              ![i].st = IF Len(units[i].pending) = 1
                                        THEN "finished" ELSE "printing"]
    /\ UNCHANGED <<pipeFrame, main_pc, domain, lines_read, stdin_eof, join_set>>

-----------------------------------------------------------------------------
(* main: the loop over stdin and the final drain (lines 294-345) *)

\* the lines stdin can deliver
SampleDomains == { Chars("edge.example"), Chars("1.2.3.4"), Chars("::1") }

\* the longest input stream
MaxInput == 2

\* the largest -t
MaxThreads == 2

\* a producer that goes on reading while a line waits for its slot
ReadLine_WhileWaiting ==
    /\ main_pc \in {"read", "admit"}
    /\ lines_read < MaxInput
    /\ \E d \in SampleDomains : domain' = d
    /\ lines_read' = lines_read + 1
    /\ main_pc' = "admit"
    /\ UNCHANGED <<pipeFrame, stdin_eof, units, join_set, stdout>>

\* stdin_lock.lines() yields a line
ReadLine ==
    /\ main_pc = "read"
    /\ lines_read < MaxInput
    /\ \E d \in SampleDomains : domain' = d
    /\ lines_read' = lines_read + 1
    /\ main_pc' = "admit"
    /\ UNCHANGED <<pipeFrame, stdin_eof, units, join_set, stdout>>

\* stdin_lock.lines() yields an error: line? returns it from main
ReadError ==
    /\ main_pc = "read"
    /\ main_pc' = "err"
    /\ UNCHANGED <<pipeFrame, domain, lines_read, stdin_eof, units, join_set, stdout>>

\* stdin is exhausted: the for loop ends
ReadEof ==
    /\ main_pc = "read"
    /\ main_pc' = "drain"
    /\ stdin_eof' = TRUE
    /\ UNCHANGED <<pipeFrame, domain, lines_read, units, join_set, stdout>>

Completed(i) == units[i].st \in {"finished", "panicked"}

\* join_next().await.unwrap().unwrap() / output.unwrap(): the pc after joining
\* unit i, a panicked unit making the unwrap panic
AfterJoin(i, pc) == IF units[i].st = "panicked" THEN "panic" ELSE pc

\* the condition of the admission loop
WindowFull_OffByOne == Cardinality(join_set) > max_concurrent

WindowFull == Cardinality(join_set) >= max_concurrent

\* while join_set.len() >= max_concurrent: join one completed unit
JoinOne ==
    /\ main_pc = "admit"
    /\ WindowFull
    /\ \E i \in join_set :
          /\ Completed(i)
          /\ join_set' = join_set \ {i}
          /\ units' = [units EXCEPT ![i].joined = TRUE]
          /\ main_pc' = AfterJoin(i, "admit")
    /\ UNCHANGED <<pipeFrame, domain, lines_read, stdin_eof, stdout>>

\* the same loop on an empty set (max_concurrent = 0): join_next() is None and
\* the first unwrap panics
JoinNone ==
    /\ main_pc = "admit"
    /\ WindowFull
    /\ join_set = {}
    /\ main_pc' = "panic"
    /\ UNCHANGED <<pipeFrame, domain, lines_read, stdin_eof, units, join_set, stdout>>

\* a spawn that moves the vector of ranges into the task
Spawn_MovesRanges ==
    /\ main_pc = "admit"
    /\ ~WindowFull
    /\ units' = Append(units, NewUnit(domain))
    /\ join_set' = join_set \cup {Len(units) + 1}
    /\ ip_ranges' = <<>>
    /\ main_pc' = "read"
    /\ UNCHANGED <<overflow_checks, matchVars, cacheVars, ports_arg, append, max_concurrent,
                   domain, lines_read, stdin_eof, stdout>>

\* join_set.spawn(...) once the loop condition is false
Spawn ==
    /\ main_pc = "admit"
    /\ ~WindowFull
    /\ units' = Append(units, NewUnit(domain))
    /\ join_set' = join_set \cup {Len(units) + 1}
    /\ main_pc' = "read"
    /\ UNCHANGED <<pipeFrame, domain, lines_read, stdin_eof, stdout>>

\* while let Some(output) = join_set.join_next().await
JoinDrain ==
    /\ main_pc = "drain"
    /\ \E i \in join_set :
          /\ Completed(i)
          /\ join_set' = join_set \ {i}
          /\ units' = [units EXCEPT ![i].joined = TRUE]
          /\ main_pc' = AfterJoin(i, "drain")
    /\ UNCHANGED <<pipeFrame, domain, lines_read, stdin_eof, stdout>>

\* a main that returns without the final drain
ReturnOk_NoDrain ==
    /\ main_pc = "drain"
    /\ main_pc' = "done"
    /\ UNCHANGED <<pipeFrame, domain, lines_read, stdin_eof, units, join_set, stdout>>

\* join_next() is None: Ok(())
ReturnOk ==
    /\ main_pc = "drain"
    /\ join_set = {}
    /\ main_pc' = "done"
    /\ UNCHANGED <<pipeFrame, domain, lines_read, stdin_eof, units, join_set, stdout>>

MainStep ==
    \/ ReadLine
    \/ ReadError
    \/ ReadEof
    \/ JoinOne
    \/ JoinNone
    \/ Spawn
    \/ JoinDrain
    \/ ReturnOk

UnitStep(i) == Run(i) \/ Println(i)

-----------------------------------------------------------------------------
(* check_updates and fetch_new_data (lines 88-217), read_cidrs (260-273) *)

\* ticks per second of the clock: SystemTime and the file's mtime are finer
\* than the seconds gap.as_secs() keeps
TicksPerSec == 2

\* the default of Interval, in seconds
DefaultInterval == 172800

\* the Providers of CONTENT
BuiltInProviders ==
    <<"fastly", "cloudflare", "cloudfront", "maxcdn", "cachefly", "imperva", "sotoon",
      "oracle", "cdnx-static", "incapsula">>

\* how many of them the model runs
MaxProviders == 1

DefaultProviders == SubSeq(BuiltInProviders, 1, MaxProviders)

\* CONTENT, parsed
DefaultConfig ==
    [exists |-> TRUE, interval |-> Some(<<DefaultInterval>>), providers |-> DefaultProviders]

NoConfig == [exists |-> FALSE, interval |-> None, providers |-> <<>>]

NoFile == [exists |-> FALSE, text |-> <<>>]

File(t) == [exists |-> TRUE, text |-> t]

\* Duration::as_secs: the whole seconds of a duration
as_secs(d) == d \div TicksPerSec

\* yaml_data.get("Interval"): the value when it is a u64, else 172800
IntervalOf(c) == IF c.interval.some THEN c.interval.val[1] ELSE DefaultInterval

\* gap.as_secs() >= interval: a refresh one second early
Stale_AtInterval(g, i) == as_secs(g) >= i

\* gap.as_secs() > interval
Stale(g, i) == as_secs(g) > i

\* the capacity of the channel: the code's channel(100), scaled so that the
\* senders of the model do fill it
ChanCap == 2

\* the most CIDRs the scan of one body finds
MaxBody == 2

\* what the regex finds in a body
BodyCidrs == { Chars("1.2.3.0/24"), Chars("9.0.0.0/0") }

\* what a request ends with: a transport error, a non-success status, a body
\* that cannot be read (the unwrap of text() panics the task), or a body with
\* the CIDRs its scan finds, in order
Responses ==
    { [kind |-> k, body |-> <<>>] : k \in {"error", "status", "unreadable"} }
        \cup { [kind |-> "success", body |-> b] : b \in SeqsUpTo(BodyCidrs, MaxBody) }

NewTask == [st |-> "requesting", kind |-> "none", body |-> <<>>, todo |-> <<>>]

\* the frame of the steps of check_updates and fetch_new_data
cacheFrame == <<overflow_checks, matchVars, ports_arg, append, max_concurrent, ip_ranges,
                domain, lines_read, stdin_eof, units, join_set, stdout>>

\* fetch_new_data up to File::create: one task spawned per provider
CallFetch(providers) ==
    /\ fetch_calls' = fetch_calls + 1
    /\ fetch_providers' = providers
    /\ prov' = [p \in 1..Len(providers) |-> NewTask]
    /\ chan' = <<>>
    /\ is_err' = TRUE
    /\ received' = <<>>
    /\ main_pc' = "fetch_create"

NoFetch == UNCHANGED <<fetch_calls, fetch_providers, prov, chan, is_err, received>>

\* the ages the metadata of cidr.txt can show against the interval i: 0, and
\* one tick before, at and after the interval and the second that follows it
Gaps(i) ==
    { 0 } \cup { s * TicksPerSec + d : s \in {i, i + 1}, d \in {0 - 1, 0, 1} }

\* a check that fetches when cidr.txt is absent
CheckNoCache_Fetches ==
    /\ main_pc = "check_updates"
    /\ config.exists /\ ~cache.exists
    /\ branch' = "nocache"
    /\ interval' = IntervalOf(config)
    /\ CallFetch(config.providers)
    /\ UNCHANGED <<cacheFrame, config, cache, cache0, gap>>

\* config present, cidr.txt absent: nothing to do
CheckNoCache ==
    /\ main_pc = "check_updates"
    /\ config.exists /\ ~cache.exists
    /\ branch' = "nocache"
    /\ interval' = IntervalOf(config)
    /\ main_pc' = "read_cidrs"
    /\ NoFetch
    /\ UNCHANGED <<cacheFrame, config, cache, cache0, gap>>

\* config present, cidr.txt present with an mtime later than now: the unwrap
\* of duration_since panics
CheckClockSkew ==
    /\ main_pc = "check_updates"
    /\ config.exists /\ cache.exists
    /\ branch' = "skew"
    /\ interval' = IntervalOf(config)
    /\ main_pc' = "panic"
    /\ NoFetch
    /\ UNCHANGED <<cacheFrame, config, cache, cache0, gap>>

\* config present, cidr.txt present and not older than the interval
CheckFresh ==
    /\ main_pc = "check_updates"
    /\ config.exists /\ cache.exists
    /\ \E g \in Gaps(IntervalOf(config)) :
          /\ g >= 0
          /\ ~Stale(g, IntervalOf(config))
          /\ gap' = g
    /\ branch' = "fresh"
    /\ interval' = IntervalOf(config)
    /\ main_pc' = "read_cidrs"
    /\ NoFetch
    /\ UNCHANGED <<cacheFrame, config, cache, cache0>>

\* config present, cidr.txt present and older than the interval
CheckStale ==
    /\ main_pc = "check_updates"
    /\ config.exists /\ cache.exists
    /\ \E g \in Gaps(IntervalOf(config)) :
          /\ g >= 0
          /\ Stale(g, IntervalOf(config))
          /\ gap' = g
    /\ branch' = "stale"
    /\ interval' = IntervalOf(config)
    /\ CallFetch(config.providers)
    /\ UNCHANGED <<cacheFrame, config, cache, cache0>>

\* a bootstrap that fetches only when there is no cidr.txt yet
CheckBootstrap_OnlyWithoutCache ==
    /\ main_pc = "check_updates"
    /\ ~config.exists
    /\ config' = DefaultConfig
    /\ branch' = "bootstrap"
    /\ IF cache.exists
       THEN main_pc' = "read_cidrs" /\ NoFetch
       ELSE CallFetch(DefaultConfig.providers)
    /\ UNCHANGED <<cacheFrame, cache, cache0, interval, gap>>

\* config absent: CONTENT is written and its providers are fetched
CheckBootstrap ==
    /\ main_pc = "check_updates"
    /\ ~config.exists
    /\ config' = DefaultConfig
    /\ branch' = "bootstrap"
    /\ CallFetch(DefaultConfig.providers)
    /\ UNCHANGED <<cacheFrame, cache, cache0, interval, gap>>

\* the request of provider p ends
Respond(p) ==
    /\ main_pc \in {"fetch_create", "fetch_recv"}
    /\ p \in 1..Len(prov)
    /\ prov[p].st = "requesting"
    /\ \E r \in Responses :
          prov' = [prov EXCEPT ![p] =
                      [st |-> IF r.body = <<>> THEN "ended" ELSE "sending",
                       kind |-> r.kind, body |-> r.body, todo |-> r.body]]
    /\ UNCHANGED <<cacheFrame, config, cache, cache0, branch, interval, gap, fetch_calls,
                   fetch_providers, chan, is_err, received, main_pc>>

\* cx_clone.send(c).await: waits while the channel is full
Send(p) ==
    /\ main_pc \in {"fetch_create", "fetch_recv"}
    /\ p \in 1..Len(prov)
    /\ prov[p].st = "sending"
    /\ Len(chan) < ChanCap
    /\ chan' = Append(chan, Head(prov[p].todo))
    /\ prov' = [prov EXCEPT ![p].todo = Tail(@),
                            ![p].st = IF Len(prov[p].todo) = 1 THEN "ended" ELSE "sending"]
    /\ UNCHANGED <<cacheFrame, config, cache, cache0, branch, interval, gap, fetch_calls,
                   fetch_providers, is_err, received, main_pc>>

\* a sink that opens cidr.txt for appending
CreateFile_Append ==
    /\ main_pc = "fetch_create"
    /\ cache' = File(cache.text)
    /\ main_pc' = "fetch_recv"
    /\ UNCHANGED <<cacheFrame, config, cache0, branch, interval, gap, fetch_calls,
                   fetch_providers, prov, chan, is_err, received>>

\* File::create(path): cidr.txt is created, or truncated when it exists
CreateFile ==
    /\ main_pc = "fetch_create"
    /\ cache' = File(<<>>)
    /\ main_pc' = "fetch_recv"
    /\ UNCHANGED <<cacheFrame, config, cache0, branch, interval, gap, fetch_calls,
                   fetch_providers, prov, chan, is_err, received>>

\* a sink that writes the line without its newline
RecvLine_NoNewline ==
    /\ main_pc = "fetch_recv"
    /\ chan # <<>>
    /\ chan' = Tail(chan)
    /\ received' = Append(received, Head(chan))
    /\ is_err' = FALSE
    /\ cache' = File(cache.text \o Head(chan))
    /\ UNCHANGED <<cacheFrame, config, cache0, branch, interval, gap, fetch_calls,
                   fetch_providers, prov, main_pc>>

\* a sink that leaves is_err set
RecvLine_KeepsErr ==
    /\ main_pc = "fetch_recv"
    /\ chan # <<>>
    /\ chan' = Tail(chan)
    /\ received' = Append(received, Head(chan))
    /\ cache' = File(cache.text \o Head(chan) \o <<"\n">>)
    /\ UNCHANGED <<cacheFrame, config, cache0, branch, interval, gap, fetch_calls,
                   fetch_providers, prov, is_err, main_pc>>

\* rx.recv() yields a line: it is written with a newline
RecvLine ==
    /\ main_pc = "fetch_recv"
    /\ chan # <<>>
    /\ chan' = Tail(chan)
    /\ received' = Append(received, Head(chan))
    /\ is_err' = FALSE
    /\ cache' = File(cache.text \o Head(chan) \o <<"\n">>)
    /\ UNCHANGED <<cacheFrame, config, cache0, branch, interval, gap, fetch_calls,
                   fetch_providers, prov, main_pc>>

\* a sink that stops at the first empty channel
RecvClosed_EmptyChannel ==
    /\ main_pc = "fetch_recv"
    /\ chan = <<>>
    /\ main_pc' = IF is_err THEN "exit1" ELSE "read_cidrs"
    /\ UNCHANGED <<cacheFrame, cacheVars>>

\* rx.recv() yields None: the channel is empty and every sender is dropped
RecvClosed ==
    /\ main_pc = "fetch_recv"
    /\ chan = <<>>
    /\ \A p \in 1..Len(prov) : prov[p].st = "ended"
    /\ main_pc' = IF is_err THEN "exit1" ELSE "read_cidrs"
    /\ UNCHANGED <<cacheFrame, cacheVars>>

DropLastEmpty(ls) == IF ls # <<>> /\ ls[Len(ls)] = <<>> THEN SubSeq(ls, 1, Len(ls) - 1) ELSE ls

\* str::lines: the pieces between newlines, without a final empty piece
Lines(s) == IF s = <<>> THEN <<>> ELSE DropLastEmpty(Split(s, "\n"))

\* buffer.trim().lines().map(|l| l.trim())
read_cidrs_of(text) == LET ls == Lines(Trim(text)) IN [i \in 1..Len(ls) |-> Trim(ls[i])]

\* let ip_ranges = read_cidrs(): File::open(path).unwrap() panics without a file
ReadCidrs ==
    /\ main_pc = "read_cidrs"
    /\ IF cache.exists
       THEN ip_ranges' = read_cidrs_of(cache.text) /\ main_pc' = "read"
       ELSE ip_ranges' = ip_ranges /\ main_pc' = "panic"
    /\ UNCHANGED <<overflow_checks, matchVars, cacheVars, ports_arg, append, max_concurrent,
                   domain, lines_read, stdin_eof, units, join_set, stdout>>

CheckUpdatesStep ==
    \/ CheckNoCache
    \/ CheckClockSkew
    \/ CheckFresh
    \/ CheckStale
    \/ CheckBootstrap

SinkStep ==
    \/ CreateFile
    \/ RecvLine
    \/ RecvClosed

TaskStep(p) == Respond(p) \/ Send(p)

-----------------------------------------------------------------------------
(* The inputs the model is exercised on *)

\* addresses that differ from 1.2.3.4 in the lowest bit, in a middle bit and in
\* the highest bit, and the two extremes
SampleAddrs ==
    { <<0, 0, 0, 0>>, <<1, 2, 3, 4>>, <<1, 2, 3, 5>>, <<1, 2, 131, 4>>,
      <<1, 3, 3, 4>>, <<129, 2, 3, 4>>, <<255, 255, 255, 255>> }

SampleLines ==
    { Chars("1.2.3.0/24"), Chars("1.2.3.4/32"), Chars("0.0.0.0/0"),
      Chars("128.0.0.0/1"), Chars("not-a-cidr"), Chars("1.2.3.4"),
      Chars("1.2.3.0/33"), Chars("1.2.x.0/24"), Chars("1.2.3.0/24/8"),
      Chars("1.2.3/24"), Chars("1.2.3.0/"), Chars("1.2.3.0/300") }

SampleCands ==
    { Chars("1.2.3.4"), Chars("1.2.4.4"), Chars("200.1.1.1"), Chars("::1"),
      Chars("") }

\* the longest CIDR list is_cdn is called on
MaxLines == 2

\* the set the pipeline runs against: a malformed line, a /24 that contains
\* 1.2.3.4 and 1.2.3.9, and a /0 line that only other addresses reach
SampleSets ==
    { <<Chars("not-a-cidr"), Chars("1.2.3.0/24"), Chars("9.0.0.0/0")>> }

SamplePorts == { None, Some(Chars("80,8080")) }

NoRet == [done |-> FALSE, panic |-> FALSE, val |-> FALSE]

Done(r) == [done |-> TRUE, panic |-> r.panic, val |-> r.val]

MatchIdle ==
    /\ arg_ip = <<0, 0, 0, 0>> /\ arg_net = <<0, 0, 0, 0>> /\ arg_prefix = 32
    /\ ret_in_cidr = NoRet
    /\ arg_cidrs = <<>> /\ arg_cand = <<>>
    /\ ret_is_cdn = NoRet

\* the pipeline not started
PipeIdle ==
    /\ ports_arg = None /\ append = FALSE /\ max_concurrent = 1
    /\ ip_ranges = <<>>
    /\ domain = <<>> /\ lines_read = 0 /\ stdin_eof = FALSE
    /\ units = <<>> /\ join_set = {} /\ stdout = EmptyBag

\* check_updates not run
CacheIdle ==
    /\ config = NoConfig /\ cache = NoFile /\ cache0 = NoFile
    /\ branch = "none" /\ interval = 0 /\ gap = 0
    /\ fetch_calls = 0 /\ fetch_providers = <<>> /\ prov = <<>> /\ chan = <<>>
    /\ is_err = FALSE /\ received = <<>>

-----------------------------------------------------------------------------
(* SpecInCidr: is_ip_in_cidr on every sample address, network and prefix *)

InitInCidr ==
    /\ overflow_checks \in BOOLEAN
    /\ arg_ip \in SampleAddrs /\ arg_net \in SampleAddrs /\ arg_prefix \in 0..32
    /\ ret_in_cidr = NoRet
    /\ arg_cidrs = <<>> /\ arg_cand = <<>> /\ ret_is_cdn = NoRet
    /\ CacheIdle /\ PipeIdle /\ main_pc = "idle"

CallInCidr ==
    /\ ~ret_in_cidr.done
    /\ ret_in_cidr' = Done(is_ip_in_cidr(arg_ip, arg_net, arg_prefix))
    /\ UNCHANGED <<overflow_checks, arg_ip, arg_net, arg_prefix, arg_cidrs, arg_cand,
                   ret_is_cdn, cacheVars, pipeVars>>

NextInCidr == CallInCidr

SpecInCidr == InitInCidr /\ [][NextInCidr]_vars

-----------------------------------------------------------------------------
(* SpecIsCdn: is_cdn on every list of at most MaxLines sample lines *)

InitIsCdn ==
    /\ overflow_checks \in BOOLEAN
    /\ arg_ip = <<0, 0, 0, 0>> /\ arg_net = <<0, 0, 0, 0>> /\ arg_prefix = 32
    /\ ret_in_cidr = NoRet
    /\ arg_cidrs \in SeqsUpTo(SampleLines, MaxLines)
    /\ arg_cand \in SampleCands
    /\ ret_is_cdn = NoRet
    /\ CacheIdle /\ PipeIdle /\ main_pc = "idle"

CallIsCdn ==
    /\ ~ret_is_cdn.done
    /\ ret_is_cdn' = Done(is_cdn(arg_cidrs, arg_cand))
    /\ UNCHANGED <<overflow_checks, arg_ip, arg_net, arg_prefix, ret_in_cidr, arg_cidrs,
                   arg_cand, cacheVars, pipeVars>>

NextIsCdn == CallIsCdn

SpecIsCdn == InitIsCdn /\ [][NextIsCdn]_vars

-----------------------------------------------------------------------------
(* SpecPipe: the resolution pipeline of main, from the loaded set on *)

InitPipe ==
    /\ overflow_checks \in BOOLEAN
    /\ MatchIdle
    /\ CacheIdle
    /\ ports_arg \in SamplePorts
    /\ append \in BOOLEAN
    /\ max_concurrent \in 0..MaxThreads
    /\ ip_ranges \in SampleSets
    /\ main_pc = "read" /\ domain = <<>> /\ lines_read = 0 /\ stdin_eof = FALSE
    /\ units = <<>> /\ join_set = {} /\ stdout = EmptyBag

NextPipe ==
    \/ MainStep
    \/ \E i \in 1..MaxInput : UnitStep(i)

SpecPipe == InitPipe /\ [][NextPipe]_vars

\* ENABLED <<UnitStep(i)>>_vars, written out: a step of a unit always changes it
UnitReady(i) ==
    ~Terminated /\ i \in 1..Len(units) /\ units[i].st \in {"running", "printing"}

\* the runtime runs main and every spawned task, and every lookup ends: weak
\* fairness of main and of each unit (WF_vars(UnitStep(i)) with its ENABLED
\* written as UnitReady(i))
FairPipe ==
    /\ WF_vars(MainStep)
    /\ \A i \in 1..MaxInput : []<>(~UnitReady(i)) \/ []<><<UnitStep(i)>>_vars

FairSpecPipe == SpecPipe /\ FairPipe

-----------------------------------------------------------------------------
(* SpecCache: check_updates, fetch_new_data and read_cidrs of one run *)

\* the largest Interval a config.yaml of the model sets
MaxInterval == 1

\* the Providers of a config.yaml the user has edited
CustomProviders == <<"custom-a", "custom-b">>

\* no config.yaml, or one with the user's providers and with or without an
\* Interval
SampleConfigs ==
    { NoConfig }
        \cup { [exists |-> TRUE, interval |-> i, providers |-> CustomProviders] :
                 i \in { None } \cup { Some(<<n>>) : n \in 0..MaxInterval } }

SampleCaches == { NoFile, File(<<>>), File(Chars("7.7.7.0/24") \o <<"\n">>) }

\* the most tasks a fetch of the model spawns
MostTasks ==
    IF MaxProviders > Len(CustomProviders) THEN MaxProviders ELSE Len(CustomProviders)

InitCache ==
    /\ overflow_checks = FALSE
    /\ MatchIdle
    /\ PipeIdle
    /\ config \in SampleConfigs
    /\ cache \in SampleCaches
    /\ cache0 = cache
    /\ branch = "none" /\ interval = 0 /\ gap = 0
    /\ fetch_calls = 0 /\ fetch_providers = <<>> /\ prov = <<>> /\ chan = <<>>
    /\ is_err = FALSE /\ received = <<>>
    /\ main_pc = "check_updates"

NextCache ==
    \/ CheckUpdatesStep
    \/ SinkStep
    \/ \E p \in 1..MostTasks : TaskStep(p)
    \/ ReadCidrs

SpecCache == InitCache /\ [][NextCache]_vars

-----------------------------------------------------------------------------
(* What a CIDR denotes: the addresses that share the top prefix bits *)

RECURSIVE BitsOf(_, _)
\* the w-bit binary expansion of n, most significant bit first
BitsOf(n, w) == IF w = 0 THEN <<>> ELSE BitsOf(n \div 2, w - 1) \o <<n % 2>>

AddrBits(a) == BitsOf(a[1], 8) \o BitsOf(a[2], 8) \o BitsOf(a[3], 8) \o BitsOf(a[4], 8)

TopBitsEqual(a, n, p) == SubSeq(AddrBits(a), 1, p) = SubSeq(AddrBits(n), 1, p)

\* C6: is_ip_in_cidr(A, N, P) returns, and returns true iff the top P bits of A
\* equal the top P bits of N, for every P in 0..32 (so always for P = 0, and iff
\* A = N for P = 32).
C6_TopBits ==
    ret_in_cidr.done =>
        /\ ~ret_in_cidr.panic
        /\ ret_in_cidr.val = TopBitsEqual(arg_ip, arg_net, arg_prefix)

\* What the code does guarantee: the claim for every prefix from 1 to 32.
InCidr_FromPrefix1 ==
    (ret_in_cidr.done /\ arg_prefix >= 1) =>
        /\ ~ret_in_cidr.panic
        /\ ret_in_cidr.val = TopBitsEqual(arg_ip, arg_net, arg_prefix)

\* Prefix 0 without overflow checks: the mask is all ones, only N itself matches.
InCidr_Prefix0Release ==
    (ret_in_cidr.done /\ arg_prefix = 0 /\ ~overflow_checks) =>
        /\ ~ret_in_cidr.panic
        /\ ret_in_cidr.val = (arg_ip = arg_net)

\* Prefix 0 with overflow checks: the shift panics.
InCidr_Prefix0Debug ==
    (ret_in_cidr.done /\ arg_prefix = 0 /\ overflow_checks) => ret_in_cidr.panic

-----------------------------------------------------------------------------
(* is_cdn against the set of its well-formed lines *)

WellFormed(line) == parse_cidr(line).ok

\* the line is well-formed and its network contains the address
LineContains(line, cand) ==
    /\ WellFormed(line)
    /\ parse_ipv4(cand).ok
    /\ TopBitsEqual(parse_ipv4(cand).val[1], parse_cidr(line).val[1][1],
                    parse_cidr(line).val[1][2])

HasPrefix0(cidrs) ==
    \E i \in 1..Len(cidrs) : WellFormed(cidrs[i]) /\ parse_cidr(cidrs[i]).val[1][2] = 0

HasMalformed(cidrs) == \E i \in 1..Len(cidrs) : ~WellFormed(cidrs[i])

\* C10: is_cdn never aborts and returns true iff some well-formed line of the
\* set contains the candidate address, wherever the malformed lines stand.
C10_SomeWellFormedLine ==
    (ret_is_cdn.done /\ HasMalformed(arg_cidrs)) =>
        /\ ~ret_is_cdn.panic
        /\ ret_is_cdn.val = (\E i \in 1..Len(arg_cidrs) : LineContains(arg_cidrs[i], arg_cand))

\* The part of C10 that is about malformed lines holds: on a set without a /0
\* line, the malformed lines are skipped and the result is that of the
\* well-formed ones.  Every failure of C10 has a /0 line in the set.
IsCdn_WithoutPrefix0 ==
    (ret_is_cdn.done /\ HasMalformed(arg_cidrs) /\ ~HasPrefix0(arg_cidrs)) =>
        /\ ~ret_is_cdn.panic
        /\ ret_is_cdn.val = (\E i \in 1..Len(arg_cidrs) : LineContains(arg_cidrs[i], arg_cand))

-----------------------------------------------------------------------------
(* The pipeline *)

Unjoined == { i \in 1..Len(units) : ~units[i].joined }

Running == { i \in 1..Len(units) : units[i].st = "running" }

\* C1: for N >= 1 at most N units are spawned and not yet joined (so at most N
\* hold an active resolution), and a unit is spawned only in a state where
\* fewer than N are.
C1_Bound ==
    /\ [](max_concurrent >= 1 =>
            /\ Cardinality(Unjoined) <= max_concurrent
            /\ Cardinality(Running) <= max_concurrent)
    /\ [][(max_concurrent >= 1 /\ Len(units') > Len(units)) =>
            Cardinality(Unjoined) < max_concurrent]_vars

\* the window was full and a further unit has been admitted after a join
C1_Witness ==
    /\ max_concurrent >= 1
    /\ Len(units) > max_concurrent
    /\ Cardinality(Unjoined) = max_concurrent
    /\ Cardinality(Running) = max_concurrent

\* C2: the pipeline terminates, and main returns Ok only after stdin is
\* exhausted and every admitted unit has completed and been joined.
C2_Terminates ==
    /\ <>Terminated
    /\ [](main_pc = "done" =>
            /\ stdin_eof
            /\ \A i \in 1..Len(units) : Completed(i) /\ units[i].joined)

\* main has returned Ok after admitting every line of a full-length input
C2_Witness == main_pc = "done" /\ Len(units) = MaxInput /\ max_concurrent = 1

\* the rows of the output table
TableLines(d, ports_given, is_cdn_, append_, configured) ==
    CASE ~ports_given /\ ~is_cdn_ -> <<d>>
      [] ~ports_given /\ is_cdn_ /\ append_ -> <<d>>
      [] ~ports_given /\ is_cdn_ /\ ~append_ -> <<>>
      [] ports_given /\ ~is_cdn_ -> [i \in 1..Len(configured) |-> d \o <<":">> \o configured[i]]
      [] ports_given /\ is_cdn_ /\ append_ -> <<d \o <<":", "8", "0">>, d \o <<":", "4", "4", "3">>>>
      [] ports_given /\ is_cdn_ /\ ~append_ -> <<>>

UnitTable(i) ==
    TableLines(units[i].domain, ports_arg.some, units[i].is_this_cdn, append,
               IF ports_arg.some THEN Split(ports_arg.val, ",") ELSE <<>>)

\* C3: a unit that has been classified prints the lines of its row of the
\* table, in order, and has printed exactly them when it finishes; a unit that
\* has not been classified has printed nothing.
C3_Table ==
    \A i \in 1..Len(units) :
        /\ units[i].classified =>
              /\ units[i].out \o units[i].pending = UnitTable(i)
              /\ (units[i].st = "finished" => units[i].out = UnitTable(i))
        /\ ~units[i].classified => units[i].out = <<>>

\* an appended CDN host has printed :80 and :443 while other ports are configured
C3_Witness ==
    \E i \in 1..Len(units) :
        /\ units[i].st = "finished" /\ units[i].is_this_cdn /\ append
        /\ ports_arg = Some(Chars("80,8080"))
        /\ Len(units[i].out) = 2

\* C8: a unit whose lookup failed or answered without an address completes
\* without a panic and without output.
C8_Dropped ==
    \A i \in 1..Len(units) :
        units[i].answer \in {"err", "empty"} =>
            /\ units[i].st = "finished"
            /\ units[i].out = <<>> /\ units[i].pending = <<>>

\* The lookup error alone is handled as C8 says.
Pipe_LookupErrDropped ==
    \A i \in 1..Len(units) :
        units[i].answer = "err" =>
            /\ units[i].st = "finished"
            /\ units[i].out = <<>> /\ units[i].pending = <<>>

\* main panics only on joining a panicked unit, or with a window of 0.
Pipe_PanicOnlyFromUnit ==
    main_pc = "panic" =>
        \/ max_concurrent = 0
        \/ \E i \in 1..Len(units) : units[i].st = "panicked" /\ units[i].joined

-----------------------------------------------------------------------------
(* The cache refresh *)

\* check_updates and a fetch it called are over
AfterCheckUpdates == main_pc \in {"exit1", "read_cidrs", "read"}

\* C4, as claimed: with config and cache file present, fetch_new_data is called
\* iff the age G of the cache file exceeds the interval I, and with G <= I the
\* cache file is left as it was.
C4_RefreshIffOlder ==
    branch \in {"fresh", "stale"} =>
        /\ (fetch_calls > 0) <=> (gap > interval * TicksPerSec)
        /\ gap <= interval * TicksPerSec => (fetch_calls = 0 /\ cache = cache0)

\* C4, amended: fetch_new_data is called iff the age is at least a whole second
\* more than the interval (its whole seconds exceed I); otherwise no fetch is
\* called and the cache file is left as it was.
C4_RefreshIffWholeSecondsOlder ==
    branch \in {"fresh", "stale"} =>
        /\ (fetch_calls > 0) <=> (gap >= (interval + 1) * TicksPerSec)
        /\ gap < (interval + 1) * TicksPerSec => (fetch_calls = 0 /\ cache = cache0)

\* a cache file older than the interval by less than a second has been reused
C4_Witness ==
    /\ branch = "fresh" /\ main_pc = "read"
    /\ gap = interval * TicksPerSec + 1
    /\ fetch_calls = 0

\* C5: a cache file that was populated before a refresh is populated after it,
\* also when the refresh ends in exit(1).
C5_NeverEmptied ==
    (cache0.exists /\ cache0.text # <<>> /\ fetch_calls > 0 /\ AfterCheckUpdates) =>
        (cache.exists /\ cache.text # <<>>)

\* A refresh that returns leaves the cache file populated.
Cache_PopulatedOnReturn ==
    (fetch_calls > 0 /\ main_pc \in {"read_cidrs", "read"}) =>
        (cache.exists /\ cache.text # <<>>)

RECURSIVE Delivered(_)
\* the CIDRs the bodies of the first n providers hold
Delivered(n) ==
    IF n = 0 THEN 0
    ELSE Delivered(n - 1) + (IF prov[n].kind = "success" THEN Len(prov[n].body) ELSE 0)

\* C7: a fetch ends in exit(1) iff no CIDR was received from any provider; a
\* provider that fails only contributes nothing, and the fetch returns when
\* the others deliver.
C7_ExitIffNoCidr ==
    /\ main_pc = "exit1" =>
          /\ Len(received) = 0
          /\ Delivered(Len(prov)) = 0
    /\ (fetch_calls > 0 /\ main_pc \in {"read_cidrs", "read"}) =>
          /\ Len(received) > 0
          /\ Len(received) = Delivered(Len(prov))

\* a fetch has returned although one provider failed
C7_Witness ==
    /\ main_pc = "read_cidrs" /\ fetch_calls > 0
    /\ \E p \in 1..Len(prov) : prov[p].kind \in {"error", "status"}
    /\ \E p \in 1..Len(prov) : prov[p].kind = "success" /\ prov[p].body # <<>>

HoldsCidrLine(text) == \E i \in 1..Len(Lines(text)) : WellFormed(Lines(text)[i])

\* C9: without a config file check_updates writes the default configuration
\* and calls fetch_new_data with the built-in providers, whatever cache file
\* exists; when it returns, the cache file exists and holds a CIDR line.
C9_Bootstrap ==
    /\ [](branch = "bootstrap" =>
            /\ config = DefaultConfig
            /\ fetch_calls = 1
            /\ fetch_providers = DefaultProviders
            /\ main_pc \in {"read_cidrs", "read"} =>
                  (cache.exists /\ HoldsCidrLine(cache.text)))
    /\ [][(main_pc = "check_updates" /\ ~config.exists) =>
            (branch' = "bootstrap" /\ fetch_calls' = 1)]_vars

\* a bootstrap over an existing, populated cache file has returned
C9_Witness ==
    /\ branch = "bootstrap" /\ main_pc = "read"
    /\ cache0.exists /\ cache0.text # <<>>

-----------------------------------------------------------------------------
(* FairSpecCache: SpecCache under a runtime that runs the sink and every task *)

\* ENABLED <<SinkStep>>_vars, written out
SinkReady ==
    \/ main_pc = "fetch_create"
    \/ /\ main_pc = "fetch_recv"
       /\ chan # <<>> \/ \A p \in 1..Len(prov) : prov[p].st = "ended"

\* ENABLED <<TaskStep(p)>>_vars, written out
TaskReady(p) ==
    /\ main_pc \in {"fetch_create", "fetch_recv"}
    /\ p \in 1..Len(prov)
    /\ \/ prov[p].st = "requesting"
       \/ prov[p].st = "sending" /\ Len(chan) < ChanCap

\* the runtime polls the sink and every spawned task that can go on, and every
\* request ends (with an answer, an error or the 10 s timeout of the client):
\* weak fairness of the sink and of each task
FairCache ==
    /\ []<>(~SinkReady) \/ []<><<SinkStep>>_vars
    /\ \A p \in 1..MostTasks : []<>(~TaskReady(p)) \/ []<><<TaskStep(p)>>_vars

FairSpecCache == SpecCache /\ FairCache

-----------------------------------------------------------------------------
(* SpecRun: one run of main, check_updates and read_cidrs and then the
   pipeline, without ports and -a, with -t 0 or -t 1 *)

\* a first run (no config.yaml, no cidr.txt) or a later one (the user's
\* config.yaml without Interval, and a cidr.txt)
InitRun ==
    /\ overflow_checks = FALSE
    /\ MatchIdle
    /\ ports_arg = None /\ append = FALSE /\ max_concurrent \in 0..1
    /\ ip_ranges = <<>>
    /\ domain = <<>> /\ lines_read = 0 /\ stdin_eof = FALSE
    /\ units = <<>> /\ join_set = {} /\ stdout = EmptyBag
    /\ config \in SampleConfigs
    /\ cache \in SampleCaches
    /\ \/ config = NoConfig /\ cache = NoFile
       \/ config.exists /\ ~config.interval.some /\ cache # File(<<>>)
    /\ cache0 = cache
    /\ branch = "none" /\ interval = 0 /\ gap = 0
    /\ fetch_calls = 0 /\ fetch_providers = <<>> /\ prov = <<>> /\ chan = <<>>
    /\ is_err = FALSE /\ received = <<>>
    /\ main_pc = "check_updates"

NextRun == NextCache \/ NextPipe

SpecRun == InitRun /\ [][NextRun]_vars

-----------------------------------------------------------------------------
(* SpecRuns: check_updates and read_cidrs of consecutive runs of the program
   over the same ~/.config/cdnx *)

\* the process has ended (exit(1), a panic, or the run that follows
\* read_cidrs) and the program is started again: config.yaml and cidr.txt are
\* what the last run left, everything else is new
Rerun ==
    /\ main_pc \in {"exit1", "panic", "read"}
    /\ main_pc' = "check_updates"
    /\ cache0' = cache
    /\ branch' = "none" /\ interval' = 0 /\ gap' = 0
    /\ fetch_calls' = 0 /\ fetch_providers' = <<>> /\ prov' = <<>> /\ chan' = <<>>
    /\ is_err' = FALSE /\ received' = <<>>
    /\ ip_ranges' = <<>>
    /\ UNCHANGED <<overflow_checks, matchVars, config, cache, ports_arg, append,
                   max_concurrent, domain, lines_read, stdin_eof, units, join_set, stdout>>

\* the first run finds no cidr.txt or one that holds CIDRs
InitRuns == InitCache /\ cache # File(<<>>)

NextRuns == NextCache \/ Rerun

SpecRuns == InitRuns /\ [][NextRuns]_vars

-----------------------------------------------------------------------------
(* The cache file as the sink leaves it and as read_cidrs loads it *)

RECURSIVE Sent(_)
\* the lines the first n tasks have put into the channel
Sent(n) ==
    IF n = 0 THEN 0 ELSE Sent(n - 1) + (Len(prov[n].body) - Len(prov[n].todo))

\* C14: under fairness a fetch that has been called always ends (it returns
\* or exits with 1), senders waiting on the full channel included; and it has
\* ended only with every task finished and every line sent received.
C14_Completes ==
    /\ (main_pc \in {"fetch_create", "fetch_recv"}) ~> (main_pc \in {"exit1", "read_cidrs"})
    /\ []((fetch_calls > 0 /\ AfterCheckUpdates) =>
            /\ \A p \in 1..Len(prov) : prov[p].st = "ended"
            /\ chan = <<>>
            /\ Len(received) = Sent(Len(prov))
            /\ Len(received) = Delivered(Len(prov)))

\* a fetch has returned after more lines than the channel holds went through
C14_Witness ==
    /\ main_pc = "read_cidrs" /\ fetch_calls > 0
    /\ Len(received) > ChanCap

\* A task waits in send with the channel full before the sink has started.
Cache_SenderBlocked ==
    /\ main_pc = "fetch_create" /\ Len(chan) = ChanCap
    /\ \E p \in 1..Len(prov) : prov[p].st = "sending"

RECURSIVE FileText(_)
\* the lines of a sequence, each followed by a newline
FileText(ls) ==
    IF ls = <<>> THEN <<>> ELSE Head(ls) \o <<"\n">> \o FileText(Tail(ls))

RECURSIVE IsMerge(_, _)
\* r interleaves the sequences of bs: each of them is a subsequence of r, in
\* its order, and r holds nothing else
IsMerge(r, bs) ==
    IF r = <<>> THEN \A p \in 1..Len(bs) : bs[p] = <<>>
    ELSE \E p \in 1..Len(bs) :
            /\ bs[p] # <<>>
            /\ Head(bs[p]) = Head(r)
            /\ IsMerge(Tail(r), [bs EXCEPT ![p] = Tail(@)])

\* what the scan of each provider's body found
Bodies == [p \in 1..Len(prov) |-> prov[p].body]

C16_NoCacheNoFetch ==
    /\ [][(main_pc = "check_updates" /\ config.exists /\ ~cache.exists) =>
            (branch' = "nocache" /\ main_pc' = "read_cidrs")]_vars
    /\ [](branch = "nocache" =>
            /\ fetch_calls = 0
            /\ ~cache.exists
            /\ cache = cache0)

\* check_updates has returned without a cidr.txt and read_cidrs has panicked
\* on opening it
C16_Witness ==
    /\ branch = "nocache" /\ main_pc = "panic"
    /\ fetch_calls = 0 /\ ~cache.exists

-----------------------------------------------------------------------------
(* The units of the pipeline *)

\* C12: a unit whose input line parses as an IP address issues no lookup; the
\* line itself is its resolved address, and the unit's classification is what
\* is_cdn returns for it (a panic of is_cdn being the unit's panic).
C12_LiteralBypass ==
    \A i \in 1..Len(units) :
        (units[i].st # "running" /\ parse_ip_addr(units[i].domain)) =>
            /\ units[i].answer = "none"
            /\ units[i].this_ip = units[i].domain
            /\ LET c == is_cdn(ip_ranges, units[i].domain)
               IN  IF c.panic THEN units[i].st = "panicked"
                   ELSE units[i].classified /\ units[i].is_this_cdn = c.val

\* the literal 1.2.3.4 has been classified cdn without a lookup
C12_Witness ==
    \E i \in 1..Len(units) :
        /\ units[i].domain = Chars("1.2.3.4") /\ units[i].st = "finished"
        /\ units[i].answer = "none"
        /\ units[i].classified /\ units[i].is_this_cdn

\* C13: a unit whose address is not an IPv4 literal is classified not-CDN
\* without a panic, whatever the set holds, and prints the lines of the
\* not-CDN row of the table.
C13_NonIpv4NotCdn ==
    \A i \in 1..Len(units) :
        (units[i].this_ip # <<>> /\ ~parse_ipv4(units[i].this_ip).ok) =>
            /\ is_cdn(ip_ranges, units[i].this_ip) = Ret(FALSE)
            /\ units[i].st # "panicked"
            /\ units[i].classified /\ ~units[i].is_this_cdn
            /\ units[i].out \o units[i].pending =
                  TableLines(units[i].domain, ports_arg.some, FALSE, append,
                             IF ports_arg.some THEN Split(ports_arg.val, ",") ELSE <<>>)

\* the IPv6 literal ::1 has been printed with the configured ports
C13_Witness ==
    \E i \in 1..Len(units) :
        /\ units[i].domain = Chars("::1") /\ units[i].st = "finished"
        /\ units[i].classified /\ ~units[i].is_this_cdn
        /\ units[i].out = <<Chars("::1:80"), Chars("::1:8080")>>

\* is_cdn on a candidate that is not an IPv4 literal returns false for every
\* list of lines, lines of prefix 0 included.
IsCdn_NonIpv4 ==
    (ret_is_cdn.done /\ ~parse_ipv4(arg_cand).ok) =>
        (~ret_is_cdn.panic /\ ~ret_is_cdn.val)

\* C17: the lines read from stdin are never more than the units admitted plus
\* one; a line is read only when every line before it has been admitted, and
\* while a line waits because the window holds max_concurrent units no
\* further line is read.
C17_Backpressure ==
    /\ [](lines_read <= Len(units) + 1)
    /\ [][lines_read' > lines_read => lines_read = Len(units)]_vars
    /\ [][(main_pc = "admit" /\ Cardinality(join_set) >= max_concurrent) =>
            lines_read' = lines_read]_vars

\* a line has been read and waits while the window holds max_concurrent units
C17_Witness ==
    /\ main_pc = "admit" /\ max_concurrent >= 1
    /\ Cardinality(join_set) = max_concurrent
    /\ lines_read = Len(units) + 1
    /\ \E i \in join_set : units[i].st = "running"

RECURSIVE BagOfSeq(_)
\* the lines of a sequence, as a multiset
BagOfSeq(s) ==
    IF s = <<>> THEN EmptyBag ELSE SetToBag({Head(s)}) (+) BagOfSeq(Tail(s))

\* the lines the output table assigns to unit i: its row when an address was
\* found for it, none otherwise
AssignedLines(i) == IF units[i].classified THEN UnitTable(i) ELSE <<>>

RECURSIVE TableBag(_)
\* the union of the assigned lines of the first n units
TableBag(n) ==
    IF n = 0 THEN EmptyBag ELSE TableBag(n - 1) (+) BagOfSeq(AssignedLines(n))

RECURSIVE WrittenBag(_)
\* the union of the lines the first n units have written
WrittenBag(n) ==
    IF n = 0 THEN EmptyBag ELSE WrittenBag(n - 1) (+) BagOfSeq(units[n].out)

\* C20: for max_concurrent >= 1, a line read becomes one unit and no more
\* (every line but the one waiting for its slot has its unit while main runs,
\* the next spawn is of the line just read, and nothing else is ever spawned),
\* a unit is joined once (it leaves the set when joined and is never joined
\* again), stdout holds each written line once, and when main has returned Ok
\* every line read has its unit, every unit is joined and stdout is the union
\* of the lines the table assigns to the units.
C20_ExactlyOnce ==
    /\ [](max_concurrent >= 1 =>
            /\ Len(units) \in {lines_read - 1, lines_read}
            /\ main_pc = "admit" => Len(units) = lines_read - 1
            /\ main_pc \in {"read", "drain", "done"} => Len(units) = lines_read
            /\ join_set = Unjoined
            /\ stdout = WrittenBag(Len(units))
            /\ main_pc = "done" =>
                  /\ Len(units) = lines_read
                  /\ Unjoined = {}
                  /\ stdout = TableBag(Len(units)))
    /\ [][max_concurrent >= 1 =>
            /\ Len(units') # Len(units) =>
                  /\ main_pc = "admit"
                  /\ units' = Append(units, NewUnit(domain))
            /\ \A i \in 1..Len(units) :
                  /\ units[i].joined => units'[i].joined
                  /\ units'[i].joined # units[i].joined =>
                        (i \in join_set /\ i \notin join_set')]_vars

\* with -t 1 and ports, main has returned Ok after two lines: the first unit
\* was joined while the second line waited, the second in the final drain,
\* and each has written its two lines
C20_Witness ==
    /\ main_pc = "done" /\ max_concurrent = 1
    /\ Len(units) = 2 /\ lines_read = 2
    /\ \A i \in 1..Len(units) : Len(units[i].out) = 2
    /\ BagCardinality(stdout) = 4

-----------------------------------------------------------------------------
(* One run of main *)

\* main before and in read_cidrs
BeforeLoad == main_pc \in {"check_updates", "fetch_create", "fetch_recv", "read_cidrs"}

\* C18: ip_ranges is set by read_cidrs alone, once, after check_updates and
\* before any line is read or unit spawned; no step of main or of a unit
\* changes it afterwards, and every classified unit holds the decision of
\* is_cdn on that set.
C18_Snapshot ==
    /\ [][ip_ranges' # ip_ranges =>
            (main_pc = "read_cidrs" /\ main_pc' = "read" /\ units = <<>> /\ lines_read = 0)]_vars
    /\ [][~BeforeLoad => ~BeforeLoad']_vars
    /\ [][main_pc = "read_cidrs" => main_pc' \in {"read_cidrs", "read", "panic"}]_vars
    /\ []((units # <<>> \/ lines_read > 0) => ~BeforeLoad)
    /\ [](\A i \in 1..Len(units) :
            units[i].classified =>
                units[i].is_this_cdn = is_cdn(ip_ranges, units[i].this_ip).val)

\* a run that fetched its set has ended with one unit classified cdn and
\* another not, both against the loaded set
C18_Witness ==
    /\ main_pc = "done" /\ fetch_calls > 0 /\ ip_ranges # <<>>
    /\ \E i, j \in 1..Len(units) :
          /\ units[i].classified /\ units[i].is_this_cdn
          /\ units[j].classified /\ ~units[j].is_this_cdn

-----------------------------------------------------------------------------
(* Consecutive runs *)

\* C19: a run that finds config.yaml and a cidr.txt not older than the
\* interval, and goes on to the pipeline, has loaded a set that is not empty,
\* whatever the runs before it did.
C19_FreshLoadsNonEmpty ==
    (branch = "fresh" /\ main_pc = "read") => ip_ranges # <<>>

\* A run that finds a cidr.txt holding text and not older than the interval
\* loads a set that is not empty.
Runs_FreshPopulatedLoads ==
    (branch = "fresh" /\ main_pc = "read" /\ cache.text # <<>>) => ip_ranges # <<>>

\* An empty cidr.txt is only ever left by a fetch that ended in exit(1).
Runs_EmptyFileFromExit ==
    [][(cache' = File(<<>>) /\ cache # File(<<>>)) => main_pc = "fetch_create"]_vars

====
